---------------------------- MODULE Spec2Model ----------------------------
(***************************************************************************)
(* keysely-n8n-infra: the key retriever custom resource handler            *)
(* (lib/stacks/n8n-stack.ts, inline Python), the boot provisioner          *)
(* (scripts/user-data.sh), the verification script                         *)
(* (scripts/check-traefik-local.sh) and the stack definition                *)
(* (lib/stacks/n8n-stack.ts), each as a state machine of its own.           *)
(***************************************************************************)
EXTENDS Integers, Sequences, FiniteSets, TLC

VARIABLES
  \* custom resource handler
  event, hpc, retry_count, private_key, secret_arn, ssm, sm, sm0, responses, calls,
  raised, past,
  \* boot provisioner
  bdomain, bpc, brun, bstatus, host, snap,
  \* verification script
  args, domain, cpc, cstatus, out, queried, HTTP_CODE, HTTPS_CODE,
  \* stack definition
  props, context, spc, resources, stack

hvars ==
  <<event, hpc, retry_count, private_key, secret_arn, ssm, sm, sm0, responses, calls,
    raised, past>>
bvars == <<bdomain, bpc, brun, bstatus, host, snap>>
cvars == <<args, domain, cpc, cstatus, out, queried, HTTP_CODE, HTTPS_CODE>>
svars == <<props, context, spc, resources, stack>>
vars == <<hvars, bvars, cvars, svars>>

(***************************************************************************)
(* Custom resource handler                                                 *)
(***************************************************************************)

\* Python's None, and a parameter or secret that does not exist.
None == "<None>"
Absent == "<absent>"
\* the empty responseData {} of cfnresponse.send
EmptyData == "{}"

\* how many times the orchestrator invokes the handler for the resource
MaxInvocations == 2

RequestTypes == {"Create", "Update", "Delete"}
KeyPairIds == {"key-1", "key-2"}
SecretNames == {"/n8n/ec2/private-key-A", "/n8n/ec2/private-key-B"}
\* Values a parameter or a secret can hold; "" is the empty string.
KeyValues == {"", "pem-1", "pem-2"}

max_retries == 10

\* line 96: event['RequestType'] == 'Delete'
IsDeleteNever(e) == FALSE
IsDelete(e) == e.RequestType = "Delete"

\* f'/ec2/keypair/{key_pair_id}'
parameter_name_other(key_pair_id) == "/ec2/keypair/" \o "key-1"
parameter_name(key_pair_id) == "/ec2/keypair/" \o key_pair_id

\* the parameters of the store: one per key pair (lines 79-80)
ParameterNames == {"/ec2/keypair/" \o k : k \in KeyPairIds}

\* response['ARN'] of describe_secret / create_secret for the secret of that name
ARN(name) == "arn:aws:secretsmanager:secret:" \o name
\* the secret a SecretId (an ARN) designates
SecretOf(id) == CHOOSE n \in SecretNames : ARN(n) = id

\* describe_secret answers for a secret that exists and raises
\* ResourceNotFoundException for one that does not (lines 128-130, 136)
DescribeFindsNone(store, name) == FALSE
DescribeFinds(store, name) == store[name] /= Absent

\* Python truthiness of private_key: None and '' are falsy
Truthy(v) == v /= None /\ v /= ""

\* the except ParameterNotFound branch: where the loop goes with the
\* incremented retry_count
AfterNotFoundAlwaysSleep(rc) == "sleep"
AfterNotFound(rc) == IF rc < max_retries THEN "sleep" ELSE "except"

\* an exception no inner except clause catches reaches the outer one
\* (line 148), whatever call raised it
AfterErrorPollAgain(api) == IF api = "get_parameter" THEN "poll" ELSE "except"
AfterError(api) == "except"

\* the status the outer except branch reports
ExceptStatusSuccess == "SUCCESS"
ExceptStatus == "FAILED"

\* the exceptions of the store calls: the two not-found ones the handler
\* names, and any other
Errors == {"ParameterNotFound", "ResourceNotFoundException", "Other"}
NoError == [api |-> None, error |-> None]

\* calls counts the calls made, by API, and under "error" those that raised an
\* error other than not-found; raised is the exception raised last
Called(api, error) ==
  /\ calls' = [calls EXCEPT ![api] = @ + 1,
                            !["error"] = @ + (IF error = "Other" THEN 1 ELSE 0)]
  /\ raised' = IF error = None THEN raised ELSE [api |-> api, error |-> error]

SendNothing(status, data) == responses' = responses
Send(status, data) == responses' = Append(responses, [Status |-> status, Data |-> data])

ApiNames ==
  {"get_parameter", "sleep", "describe_secret", "put_secret_value", "create_secret", "error"}

HandlerIdle ==
  /\ event = [RequestType |-> "Delete", KeyPairId |-> "key-1",
              SecretName |-> "/n8n/ec2/private-key-A"]
  /\ hpc = "idle"
  /\ retry_count = 0
  /\ private_key = None
  /\ secret_arn = None
  /\ ssm = [p \in ParameterNames |-> Absent]
  /\ sm = [n \in SecretNames |-> Absent]
  /\ sm0 = sm
  /\ responses = <<>>
  /\ calls = [a \in ApiNames |-> 0]
  /\ raised = NoError
  /\ past = <<>>

\* The first invocation: the event the orchestrator sends, and the two stores
\* as they are when the handler starts.
InitHandler ==
  /\ event \in [RequestType : RequestTypes, KeyPairId : KeyPairIds, SecretName : SecretNames]
  /\ hpc = "start"
  /\ retry_count = 0
  /\ private_key = None
  /\ secret_arn = None
  /\ ssm \in [ParameterNames -> {Absent, "pem-2"}]
  /\ sm \in [SecretNames -> {Absent, "pem-old"}]
  /\ sm0 = sm
  /\ responses = <<>>
  /\ calls = [a \in ApiNames |-> 0]
  /\ raised = NoError
  /\ past = <<>>

\* lines 92-110: the Delete branch, the properties, the loop's variables
HStart ==
  /\ hpc = "start"
  /\ IF IsDelete(event)
       THEN /\ Send("SUCCESS", EmptyData)
            /\ hpc' = "done"
       ELSE /\ hpc' = "poll"
            /\ UNCHANGED responses
  /\ retry_count' = 0
  /\ private_key' = None
  /\ UNCHANGED <<event, secret_arn, ssm, sm, sm0, calls, raised, past>>
  /\ UNCHANGED <<bvars, cvars, svars>>

\* lines 112-122: one turn of the while loop up to the sleep
HGetParameter ==
  /\ hpc = "poll"
  /\ IF retry_count < max_retries
       THEN \E err \in BOOLEAN :
              IF err
                THEN \* an error other than ParameterNotFound
                     /\ Called("get_parameter", "Other")
                     /\ hpc' = AfterError("get_parameter")
                     /\ UNCHANGED <<retry_count, private_key>>
                ELSE IF ssm[parameter_name(event.KeyPairId)] /= Absent
                  THEN /\ Called("get_parameter", None)
                       /\ private_key' = ssm[parameter_name(event.KeyPairId)]
                       /\ hpc' = "check"
                       /\ UNCHANGED retry_count
                  ELSE /\ Called("get_parameter", "ParameterNotFound")
                       /\ retry_count' = retry_count + 1
                       /\ hpc' = AfterNotFound(retry_count + 1)
                       /\ UNCHANGED private_key
       ELSE /\ hpc' = "check"
            /\ UNCHANGED <<retry_count, private_key, calls, raised>>
  /\ UNCHANGED <<event, secret_arn, ssm, sm, sm0, responses, past>>
  /\ UNCHANGED <<bvars, cvars, svars>>

\* line 120: time.sleep(2)
HSleep ==
  /\ hpc = "sleep"
  /\ Called("sleep", None)
  /\ hpc' = "poll"
  /\ UNCHANGED <<event, retry_count, private_key, secret_arn, ssm, sm, sm0, responses, past>>
  /\ UNCHANGED <<bvars, cvars, svars>>

\* lines 124-125
HCheck ==
  /\ hpc = "check"
  /\ hpc' = IF Truthy(private_key) THEN "describe" ELSE "except"
  /\ UNCHANGED <<event, retry_count, private_key, secret_arn, ssm, sm, sm0, responses, calls,
                 raised, past>>
  /\ UNCHANGED <<bvars, cvars, svars>>

\* lines 128-130 and 136
HDescribe ==
  /\ hpc = "describe"
  /\ \E err \in BOOLEAN :
       IF err
         THEN /\ Called("describe_secret", "Other")
              /\ hpc' = AfterError("describe_secret")
              /\ UNCHANGED secret_arn
         ELSE IF DescribeFinds(sm, event.SecretName)
           THEN /\ Called("describe_secret", None)
                /\ hpc' = "put"
                /\ secret_arn' = ARN(event.SecretName)
           ELSE /\ Called("describe_secret", "ResourceNotFoundException")
                /\ hpc' = "create"
                /\ UNCHANGED secret_arn
  /\ UNCHANGED <<event, retry_count, private_key, ssm, sm, sm0, responses, past>>
  /\ UNCHANGED <<bvars, cvars, svars>>

\* lines 132-136: put_secret_value is inside the try whose except clause
\* catches ResourceNotFoundException
HPut ==
  /\ hpc = "put"
  /\ \E err \in BOOLEAN :
       IF err
         THEN /\ Called("put_secret_value", "Other")
              /\ hpc' = AfterError("put_secret_value")
              /\ UNCHANGED sm
         ELSE IF sm[SecretOf(secret_arn)] /= Absent
           THEN /\ Called("put_secret_value", None)
                /\ hpc' = "send"
                /\ sm' = [sm EXCEPT ![SecretOf(secret_arn)] = private_key]
           ELSE /\ Called("put_secret_value", "ResourceNotFoundException")
                /\ hpc' = "create"
                /\ UNCHANGED sm
  /\ UNCHANGED <<event, retry_count, private_key, secret_arn, ssm, sm0, responses, past>>
  /\ UNCHANGED <<bvars, cvars, svars>>

\* lines 138-143
HCreate ==
  /\ hpc = "create"
  /\ \E err \in BOOLEAN :
       IF err
         THEN /\ Called("create_secret", "Other")
              /\ hpc' = AfterError("create_secret")
              /\ UNCHANGED <<sm, secret_arn>>
         ELSE /\ Called("create_secret", None)
              /\ hpc' = "send"
              /\ sm' = [sm EXCEPT ![event.SecretName] = private_key]
              /\ secret_arn' = ARN(event.SecretName)
  /\ UNCHANGED <<event, retry_count, private_key, ssm, sm0, responses, past>>
  /\ UNCHANGED <<bvars, cvars, svars>>

\* lines 145-147
HSendSuccess ==
  /\ hpc = "send"
  /\ Send("SUCCESS", secret_arn)
  /\ hpc' = "done"
  /\ UNCHANGED <<event, retry_count, private_key, secret_arn, ssm, sm, sm0, calls, raised,
                 past>>
  /\ UNCHANGED <<bvars, cvars, svars>>

\* lines 148-152
HExcept ==
  /\ hpc = "except"
  /\ Send(ExceptStatus, EmptyData)
  /\ hpc' = "done"
  /\ UNCHANGED <<event, retry_count, private_key, secret_arn, ssm, sm, sm0, calls, raised,
                 past>>
  /\ UNCHANGED <<bvars, cvars, svars>>

\* The orchestrator stores the key pair's private key in the parameter store
\* at some moment of its own choosing (lines 78-80, 107).
EnvStoreKey ==
  /\ hpc \in {"poll", "sleep"}
  /\ \E p \in ParameterNames, v \in KeyValues :
       /\ ssm[p] = Absent
       /\ ssm' = [ssm EXCEPT ![p] = v]
  /\ UNCHANGED <<event, hpc, retry_count, private_key, secret_arn, sm, sm0, responses, calls,
                 raised, past>>
  /\ UNCHANGED <<bvars, cvars, svars>>

\* Somebody else deletes the destination secret after the handler has found
\* it (line 129) and before it writes to it (line 132).
EnvDeleteSecret ==
  /\ hpc = "put"
  /\ sm[event.SecretName] /= Absent
  /\ sm' = [sm EXCEPT ![event.SecretName] = Absent]
  /\ UNCHANGED <<event, hpc, retry_count, private_key, secret_arn, ssm, sm0, responses, calls,
                 raised, past>>
  /\ UNCHANGED <<bvars, cvars, svars>>

\* The orchestrator invokes the handler again for the same resource, whose
\* properties KeyPairId and SecretName are fixed by the stack (lines 184-190);
\* past keeps what the invocation before ended with.
HInvoke ==
  /\ hpc = "done"
  /\ Len(past) + 1 < MaxInvocations
  /\ \E t \in RequestTypes : event' = [event EXCEPT !.RequestType = t]
  /\ past' = Append(past, [RequestType |-> event.RequestType,
                           Status |-> responses[1].Status,
                           Data |-> responses[1].Data,
                           SecretString |-> sm[event.SecretName]])
  /\ hpc' = "start"
  /\ retry_count' = 0
  /\ private_key' = None
  /\ secret_arn' = None
  /\ sm0' = sm
  /\ responses' = <<>>
  /\ calls' = [a \in ApiNames |-> 0]
  /\ raised' = NoError
  /\ UNCHANGED <<ssm, sm>>
  /\ UNCHANGED <<bvars, cvars, svars>>

NextHandler ==
  \/ HStart
  \/ HGetParameter
  \/ HSleep
  \/ HCheck
  \/ HDescribe
  \/ HPut
  \/ HCreate
  \/ HSendSuccess
  \/ HExcept
  \/ EnvStoreKey
  \/ EnvDeleteSecret
  \/ HInvoke

(***************************************************************************)
(* Boot provisioner (scripts/user-data.sh)                                 *)
(***************************************************************************)

\* how many times the script is run on one host, and how many distinct
\* outputs `openssl rand -base64 32` can give
MaxRuns == 2
NumRand == 2

DomainNames == {"n8n.keysely.com", "n8n.example.org"}

RandOutputs == {"b64-" \o ToString(i) : i \in 1..NumRand}

OPT == "/opt/n8n"
DOCKER_DIR == "/opt/n8n/docker"
COMPOSE_YML == "/opt/n8n/docker/docker-compose.yml"
ENV_FILE == "/opt/n8n/docker/.env"
SCRIPTS_DIR == "/opt/n8n/scripts"
CHECK_SCRIPT == "/opt/n8n/scripts/check-traefik-local.sh"
CHECK_LINK == "/usr/local/bin/check-traefik-local"
LOGROTATE_CONF == "/etc/logrotate.d/docker-containers"
COMPOSE_BIN == "/usr/local/bin/docker-compose"

\* the paths the script creates itself (mkdir -p, cat >, tee, curl -o, ln -sf)
ScriptPaths ==
  {OPT, DOCKER_DIR, "/opt/n8n/data", "/opt/n8n/postgres-data", "/opt/n8n/traefik-data",
   COMPOSE_YML, ENV_FILE, SCRIPTS_DIR, CHECK_SCRIPT, CHECK_LINK, LOGROTATE_CONF, COMPOSE_BIN}

\* a relative bind-mount source of the composition, resolved in the project
\* directory (line 70: ./local-files, lines 145-146)
BindPath(cwd, source) == cwd \o "/" \o source

\* the file a command name stands for: PATH holds /usr/local/bin, where the
\* script puts its link (line 409)
CommandPath(name) == "/usr/local/bin/" \o name

\* the paths of the host the model follows: those of the script, the
\* bind-mount directory and the command name the README gives for the check
Paths ==
  ScriptPaths \cup {BindPath(DOCKER_DIR, "local-files"), CommandPath("check-traefik")}

\* the paths at or below /opt/n8n: what chown -R /opt/n8n walks
UnderOpt == Paths \ {CHECK_LINK, LOGROTATE_CONF, COMPOSE_BIN, CommandPath("check-traefik")}

NoEntry == [kind |-> "absent", owner |-> "", mode |-> 0, content |-> <<>>]

\* lines 28-126: the composition, one record per service; a port is
\* <<host port, container port>>, a volume its parsed short syntax, an
\* environment entry ${var:-default}
ComposeFile(d) ==
  << [service |-> "postgres",
      ports |-> <<>>,
      volumes |-> << [type |-> "volume", source |-> "postgres_data",
                      target |-> "/var/lib/postgresql/data"] >>,
      environment |-> << [name |-> "POSTGRES_USER", var |-> "POSTGRES_USER", default |-> "n8n"],
                         [name |-> "POSTGRES_PASSWORD", var |-> "POSTGRES_PASSWORD",
                          default |-> "n8n"],
                         [name |-> "POSTGRES_DB", var |-> "POSTGRES_DB", default |-> "n8n"] >>],
     [service |-> "n8n",
      ports |-> << <<5678, 5678>> >>,
      volumes |-> << [type |-> "volume", source |-> "n8n_data", target |-> "/home/node/.n8n"],
                     [type |-> "bind", source |-> "local-files", target |-> "/files"] >>,
      environment |-> << [name |-> "DB_POSTGRESDB_USER", var |-> "POSTGRES_USER",
                          default |-> "n8n"],
                         [name |-> "DB_POSTGRESDB_PASSWORD", var |-> "POSTGRES_PASSWORD",
                          default |-> "n8n"],
                         [name |-> "N8N_HOST", var |-> "", default |-> d],
                         [name |-> "N8N_BASIC_AUTH_USER", var |-> "N8N_BASIC_AUTH_USER",
                          default |-> "admin"],
                         [name |-> "N8N_BASIC_AUTH_PASSWORD", var |-> "N8N_BASIC_AUTH_PASSWORD",
                          default |-> "changeme"] >>],
     [service |-> "traefik",
      ports |-> << <<80, 80>>, <<443, 443>> >>,
      volumes |-> << [type |-> "volume", source |-> "traefik_data", target |-> "/letsencrypt"] >>,
      environment |-> << [name |-> "DOMAIN_NAME", var |-> "", default |-> d] >>] >>

\* lines 130-138: the .env here-document (delimiter EOF, unquoted), one
\* record per line; a value is a sequence of tokens: "lit" plain text, "esc"
\* a backslash-escaped \$( ... ), "cmd" a command substitution $( ... )
EnvHeredoc(d) ==
  << [key |-> "DOMAIN_NAME", val |-> << [t |-> "lit", s |-> d] >>],
     [key |-> "POSTGRES_USER", val |-> << [t |-> "lit", s |-> "n8n"] >>],
     [key |-> "POSTGRES_PASSWORD", val |-> << [t |-> "esc", s |-> "openssl rand -base64 32"] >>],
     [key |-> "POSTGRES_DB", val |-> << [t |-> "lit", s |-> "n8n"] >>],
     [key |-> "N8N_BASIC_AUTH_USER", val |-> << [t |-> "lit", s |-> "admin"] >>],
     [key |-> "N8N_BASIC_AUTH_PASSWORD",
      val |-> << [t |-> "esc", s |-> "openssl rand -base64 32"] >>],
     [key |-> "ACME_EMAIL", val |-> << [t |-> "lit", s |-> "admin@"], [t |-> "lit", s |-> d] >>] >>

\* the shell's expansion of one token of an unquoted here-document; draw is
\* what the command would print if it were run
ExpandTokenRunsEscaped(tok, draw) ==
  IF tok.t = "lit" THEN tok.s ELSE draw
ExpandToken(tok, draw) ==
  CASE tok.t = "lit" -> tok.s
    [] tok.t = "esc" -> "$(" \o tok.s \o ")"
    [] tok.t = "cmd" -> draw

RECURSIVE ExpandTokens(_, _)
ExpandTokens(toks, draw) ==
  IF toks = <<>> THEN ""
  ELSE ExpandToken(Head(toks), draw) \o ExpandTokens(Tail(toks), draw)

\* the file the here-document writes: <<key, value>> per line; draws[i] is
\* the output of a command run on line i
ExpandHeredoc(doc, draws) ==
  [i \in 1..Len(doc) |-> <<doc[i].key, ExpandTokens(doc[i].val, draws[i])>>]

\* docker-compose's reading of .env, and its ${var:-default} interpolation
EnvLookup(envfile, var) ==
  IF \E i \in 1..Len(envfile) : envfile[i][1] = var
    THEN envfile[CHOOSE i \in 1..Len(envfile) : envfile[i][1] = var][2]
    ELSE ""
Interpolate(envfile, e) ==
  IF e.var /= "" /\ EnvLookup(envfile, e.var) /= "" THEN EnvLookup(envfile, e.var)
  ELSE e.default

\* the environment each service is started with
ServiceEnv(compose, envfile) ==
  UNION { { <<compose[i].service, compose[i].environment[j].name,
              Interpolate(envfile, compose[i].environment[j])>> :
            j \in 1..Len(compose[i].environment) } : i \in 1..Len(compose) }

\* the host ports the composition publishes, by service
PublishedPorts(compose) ==
  UNION { { <<compose[i].service, compose[i].ports[j][1]>> : j \in 1..Len(compose[i].ports) } :
          i \in 1..Len(compose) }

\* the host directories the composition's bind mounts name
BindDirs(compose, cwd) ==
  UNION { { BindPath(cwd, compose[i].volumes[j].source) :
            j \in {k \in 1..Len(compose[i].volumes) : compose[i].volumes[k].type = "bind"} } :
          i \in 1..Len(compose) }

St(line, op, path, arg) == [line |-> line, op |-> op, path |-> path, arg |-> arg]

\* the part of the script up to the .env file, and the part after the launch
ScriptHead ==
  << St(5, "yum_update", "", ""),
     St(8, "yum_install", "", "docker"),
     St(9, "systemctl_start", "", "docker"),
     St(10, "systemctl_enable", "", "docker"),
     St(11, "usermod", "", "docker"),
     St(14, "curl_download", COMPOSE_BIN, "docker-compose"),
     St(15, "chmod_x", COMPOSE_BIN, ""),
     St(18, "mkdir_p", OPT, ""),
     St(19, "mkdir_p", DOCKER_DIR, ""),
     St(20, "mkdir_p", "/opt/n8n/data", ""),
     St(21, "mkdir_p", "/opt/n8n/postgres-data", ""),
     St(22, "mkdir_p", "/opt/n8n/traefik-data", ""),
     St(23, "chown_R", OPT, ""),
     St(27, "cat_compose", COMPOSE_YML, ""),
     St(130, "cat_env", ENV_FILE, "") >>
ScriptTail ==
  << St(149, "sleep", "", ""),
     St(153, "sleep", "", ""),
     St(155, "fix_acme", "", ""),
     St(164, "docker_exec_or_true", "", ""),
     St(167, "echo", "", ""),
     St(170, "tee", LOGROTATE_CONF, "logrotate docker-containers"),
     St(183, "yum_install", "", "bind-utils curl openssl"),
     St(186, "mkdir_p", SCRIPTS_DIR, ""),
     St(187, "chown", SCRIPTS_DIR, ""),
     St(190, "tee", CHECK_SCRIPT, "check-traefik-local.sh"),
     St(405, "chmod_x", CHECK_SCRIPT, ""),
     St(406, "chown", CHECK_SCRIPT, ""),
     St(409, "ln_sf", CHECK_LINK, CHECK_SCRIPT),
     St(411, "echo", "", ""),
     St(412, "echo", "", "") >>

\* user-data.sh, one entry per command, in the order of the file
ScriptLaunchBeforeChmod ==
  ScriptHead \o
  << St(141, "chown_R", OPT, ""),
     St(145, "cd", DOCKER_DIR, ""),
     St(146, "compose_up", "", ""),
     St(142, "chmod_600", ENV_FILE, "") >> \o ScriptTail
Script ==
  ScriptHead \o
  << St(141, "chown_R", OPT, ""),
     St(142, "chmod_600", ENV_FILE, ""),
     St(145, "cd", DOCKER_DIR, ""),
     St(146, "compose_up", "", "") >> \o ScriptTail

\* set -e: a command that can end the script with a non-zero status
CanFail(step) == step.op \notin {"echo", "sleep", "docker_exec_or_true"}

\* line 164: docker exec ... || true, a command whose failure is masked
Masked(step) == step.op = "docker_exec_or_true"

\* what becomes of the script when a command has failed: set -e (line 2) ends
\* it, unless the command is the left side of || true
AfterFailureGoOn(step) == "running"
AfterFailure(step) == IF Masked(step) THEN "running" ELSE "failed"

\* > file, tee file, curl -o file, as root: a new file is root's, mode 644;
\* an existing one keeps owner and mode
WriteFile(fs, p, c) ==
  [fs EXCEPT ![p] = IF @.kind = "absent"
                      THEN [kind |-> "file", owner |-> "root", mode |-> 644, content |-> c]
                      ELSE [@ EXCEPT !.content = c]]

MkdirP(fs, p) ==
  [fs EXCEPT ![p] = IF @.kind = "absent"
                      THEN [kind |-> "dir", owner |-> "root", mode |-> 755, content |-> <<>>]
                      ELSE @]

\* chmod +x
AddX(mode) == CASE mode = 644 -> 755 [] mode = 600 -> 700 [] OTHER -> mode

Chown(fs, ps) ==
  [p \in DOMAIN fs |-> IF p \in ps /\ fs[p].kind /= "absent"
                         THEN [fs[p] EXCEPT !.owner = "ec2-user"] ELSE fs[p]]

\* sudo -u ec2-user docker-compose up -d, in the project directory: the
\* services start with the environment read from .env, their ports are
\* published, and a missing bind-mount source is created by the daemon
ComposeUp(h) ==
  LET compose == h.fs[BindPath(h.cwd, "docker-compose.yml")].content
      envfile == h.fs[BindPath(h.cwd, ".env")].content
      binds == BindDirs(compose, h.cwd)
  IN [h EXCEPT !.up = TRUE,
               !.published = PublishedPorts(compose),
               !.env = ServiceEnv(compose, envfile),
               !.fs = [p \in DOMAIN h.fs |-> IF p \in binds THEN MkdirP(h.fs, p)[p]
                                             ELSE h.fs[p]]]

\* the effect of one command of the script on the host
Exec(step, h, d, draws) ==
  CASE step.op = "yum_install" -> [h EXCEPT !.packages = @ \cup {step.arg}]
    [] step.op = "systemctl_start" -> [h EXCEPT !.started = @ \cup {step.arg}]
    [] step.op = "systemctl_enable" -> [h EXCEPT !.enabled = @ \cup {step.arg}]
    [] step.op = "usermod" -> [h EXCEPT !.groups = @ \cup {step.arg}]
    [] step.op = "curl_download" -> [h EXCEPT !.fs = WriteFile(@, step.path, <<step.arg>>)]
    [] step.op = "chmod_x" -> [h EXCEPT !.fs[step.path].mode = AddX(@)]
    [] step.op = "chmod_600" -> [h EXCEPT !.fs[step.path].mode = 600]
    [] step.op = "mkdir_p" -> [h EXCEPT !.fs = MkdirP(@, step.path)]
    [] step.op = "chown_R" -> [h EXCEPT !.fs = Chown(@, UnderOpt)]
    [] step.op = "chown" -> [h EXCEPT !.fs = Chown(@, {step.path})]
    [] step.op = "cat_compose" -> [h EXCEPT !.fs = WriteFile(@, step.path, ComposeFile(d))]
    [] step.op = "cat_env" ->
         [h EXCEPT !.fs = WriteFile(@, step.path, ExpandHeredoc(EnvHeredoc(d), draws))]
    [] step.op = "cd" -> [h EXCEPT !.cwd = step.path]
    [] step.op = "compose_up" -> ComposeUp(h)
    [] step.op = "tee" -> [h EXCEPT !.fs = WriteFile(@, step.path, <<step.arg>>)]
    [] step.op = "ln_sf" ->
         [h EXCEPT !.fs[step.path] =
            [kind |-> "link", owner |-> "root", mode |-> 777, content |-> <<step.arg>>]]
    [] OTHER -> h

\* a command name can be run when its entry in /usr/local/bin is an executable
\* file or a link to one (lines 405-409)
CanRun(h, name) ==
  LET e == h.fs[CommandPath(name)]
  IN \/ e.kind = "file" /\ e.mode = 755
     \/ /\ e.kind = "link"
        /\ h.fs[e.content[1]].kind = "file"
        /\ h.fs[e.content[1]].mode = 755

\* a freshly launched instance
FreshHost ==
  [packages |-> {}, started |-> {}, enabled |-> {}, groups |-> {}, cwd |-> "/",
   fs |-> [p \in Paths |-> NoEntry], up |-> FALSE, published |-> {}, env |-> {}, ran |-> <<>>,
   failed |-> <<>>]

BootIdle ==
  /\ bdomain = "n8n.keysely.com"
  /\ bpc = 0
  /\ brun = 0
  /\ bstatus = "idle"
  /\ host = FreshHost
  /\ snap = FreshHost.fs

\* first boot; the domain name is the one the stack put into the script
InitBoot ==
  /\ bdomain \in DomainNames
  /\ bpc = 1
  /\ brun = 1
  /\ bstatus = "running"
  /\ host = FreshHost
  /\ snap = FreshHost.fs

\* the next command of the script runs and succeeds
BootStep ==
  /\ bstatus = "running"
  /\ bpc <= Len(Script)
  /\ \E draws \in [1..Len(EnvHeredoc(bdomain)) -> RandOutputs] :
       host' = [Exec(Script[bpc], host, bdomain, draws) EXCEPT
                  !.ran = Append(host.ran, Script[bpc].line)]
  /\ bpc' = bpc + 1
  /\ bstatus' = IF bpc = Len(Script) THEN "done" ELSE "running"
  /\ UNCHANGED <<bdomain, brun, snap>>
  /\ UNCHANGED <<hvars, cvars, svars>>

\* the next command fails: set -e ends the script there (line 2), or the
\* script goes on behind || true (line 164); the command has changed nothing
BootFail ==
  /\ bstatus = "running"
  /\ bpc <= Len(Script)
  /\ CanFail(Script[bpc]) \/ Masked(Script[bpc])
  /\ bstatus' = AfterFailure(Script[bpc])
  /\ bpc' = IF AfterFailure(Script[bpc]) = "running" THEN bpc + 1 ELSE bpc
  /\ host' = [host EXCEPT !.failed = Append(@, Script[bpc].line)]
  /\ UNCHANGED <<bdomain, brun, snap>>
  /\ UNCHANGED <<hvars, cvars, svars>>

\* the script is run again on the provisioned host
BootRerun ==
  /\ bstatus = "done"
  /\ brun < MaxRuns
  /\ brun' = brun + 1
  /\ bpc' = 1
  /\ bstatus' = "running"
  /\ snap' = host.fs
  /\ host' = [host EXCEPT !.cwd = "/", !.ran = <<>>, !.failed = <<>>]
  /\ UNCHANGED bdomain
  /\ UNCHANGED <<hvars, cvars, svars>>

NextBoot ==
  \/ BootStep
  \/ BootFail
  \/ BootRerun

(***************************************************************************)
(* Verification script (scripts/check-traefik-local.sh)                    *)
(***************************************************************************)

\* how many command-line arguments an invocation may give
MaxArgs == 1

ArgValues == {"", "n8n.example.org"}
ArgLists == UNION { [1..n -> ArgValues] : n \in 0..MaxArgs }

\* line 7: "${1:-n8n.keysely.com}", the default when $1 is unset or null
ParamOrDefaultUnsetOnly(a, default) == IF Len(a) >= 1 THEN a[1] ELSE default
ParamOrDefault(a, default) == IF Len(a) >= 1 /\ a[1] /= "" THEN a[1] ELSE default

\* what one curl -s -o /dev/null -w "%{http_code}" run writes and returns:
\* a response (status 0), no connection (000 written, status 7), or no curl
\* on the host (nothing written, status 127)
CurlOutcomes ==
  { [written |-> c, rc |-> 0] : c \in {"200", "301", "308", "401", "404"} }
    \cup { [written |-> "000", rc |-> 7], [written |-> "", rc |-> 127] }

\* lines 105 and 132: $(curl ... 2>/dev/null || echo "000")
CodeOf(r) == IF r.rc = 0 THEN r.written ELSE r.written \o "000"

Line(check, kind, msg) == [check |-> check, kind |-> kind, msg |-> msg]

\* lines 106-112
HttpLineNo308(code, d) ==
  IF code = "301" \/ code = "302"
    THEN Line("http", "pass", "HTTP redirects to HTTPS (code: " \o code \o ")")
  ELSE IF code = "000"
    THEN Line("http", "fail", "Cannot connect to http://" \o d)
  ELSE Line("http", "warn", "HTTP returned code " \o code \o " (expected 301/302/308 redirect)")
HttpLine(code, d) ==
  IF code = "301" \/ code = "302" \/ code = "308"
    THEN Line("http", "pass", "HTTP redirects to HTTPS (code: " \o code \o ")")
  ELSE IF code = "000"
    THEN Line("http", "fail", "Cannot connect to http://" \o d)
  ELSE Line("http", "warn", "HTTP returned code " \o code \o " (expected 301/302/308 redirect)")

\* lines 133-141
HttpsLine(code, d) ==
  IF code = "401"
    THEN Line("https", "pass", "HTTPS is accessible (401 = Basic Auth required, which is correct)")
  ELSE IF code = "200"
    THEN Line("https", "pass", "HTTPS is accessible")
  ELSE IF code = "000"
    THEN Line("https", "fail", "Cannot connect to https://" \o d)
  ELSE Line("https", "warn", "HTTPS returned code " \o code)

CheckIdle ==
  /\ args = <<>>
  /\ domain = ""
  /\ cpc = 0
  /\ cstatus = "idle"
  /\ out = <<>>
  /\ queried = {}
  /\ HTTP_CODE = ""
  /\ HTTPS_CODE = ""

InitCheck ==
  /\ args \in ArgLists
  /\ domain = ""
  /\ cpc = 0
  /\ cstatus = "running"
  /\ out = <<>>
  /\ queried = {}
  /\ HTTP_CODE = ""
  /\ HTTPS_CODE = ""

Say(l) == out' = Append(out, l)
Goto(n) == cpc' = n /\ cstatus' = "running"
\* exit 1 (line 35), or a failing command under set -e (line 5)
Exit == cpc' = cpc /\ cstatus' = "exited"

\* lines 7-12
CStart ==
  /\ cstatus = "running" /\ cpc = 0
  /\ domain' = ParamOrDefault(args, "n8n.keysely.com")
  /\ Goto(1)
  /\ UNCHANGED <<args, out, queried, HTTP_CODE, HTTPS_CODE>>
  /\ UNCHANGED <<hvars, bvars, svars>>

\* lines 33-45: cd, docker-compose ps, docker ps
CSec1 ==
  /\ cstatus = "running" /\ cpc = 1
  /\ \E r \in {"ok", "no_dir", "ps_fails"} :
       CASE r = "ok" -> Goto(2) /\ UNCHANGED out
         [] r = "no_dir" -> Say(Line("containers", "fail", "Cannot access /opt/n8n/docker")) /\ Exit
         [] r = "ps_fails" -> Exit /\ UNCHANGED out
  /\ UNCHANGED <<args, domain, queried, HTTP_CODE, HTTPS_CODE>>
  /\ UNCHANGED <<hvars, bvars, svars>>

\* lines 47-51: docker logs traefik || check_failed
CSec2 ==
  /\ cstatus = "running" /\ cpc = 2
  /\ \E ok \in BOOLEAN :
       IF ok THEN UNCHANGED out ELSE Say(Line("logs", "fail", "Cannot access Traefik logs"))
  /\ Goto(3)
  /\ UNCHANGED <<args, domain, queried, HTTP_CODE, HTTPS_CODE>>
  /\ UNCHANGED <<hvars, bvars, svars>>

\* lines 53-64: the pipelines end in head and in || check_warning
CSec3 ==
  /\ cstatus = "running" /\ cpc = 3
  /\ \E labels \in BOOLEAN :
       IF labels THEN UNCHANGED out ELSE Say(Line("labels", "warn", "No Traefik labels found"))
  /\ Goto(4)
  /\ UNCHANGED <<args, domain, queried, HTTP_CODE, HTTPS_CODE>>
  /\ UNCHANGED <<hvars, bvars, svars>>

\* lines 66-79
CSec4 ==
  /\ cstatus = "running" /\ cpc = 4
  /\ \E r \in {"content", "empty", "no_dir"} :
       CASE r = "content" -> Say(Line("acme", "pass", "acme.json exists and has content"))
         [] r = "empty" -> Say(Line("acme", "warn", "acme.json exists but is empty"))
         [] r = "no_dir" -> Say(Line("acme", "fail", "Cannot access /letsencrypt directory"))
  /\ Goto(5)
  /\ UNCHANGED <<args, domain, queried, HTTP_CODE, HTTPS_CODE>>
  /\ UNCHANGED <<hvars, bvars, svars>>

\* lines 81-101
CSec5 ==
  /\ cstatus = "running" /\ cpc = 5
  /\ \E r \in {"no_dig", "no_answer", "match", "mismatch"} :
       CASE r = "no_dig" ->
              /\ Say(Line("dns", "warn", "dig command not found"))
              /\ UNCHANGED queried
         [] r = "no_answer" ->
              /\ Say(Line("dns", "fail", "DNS does not resolve for " \o domain))
              /\ queried' = queried \cup {<<"dns", domain>>}
         [] r = "match" ->
              /\ out' = out \o << Line("dns", "pass", "DNS resolves " \o domain),
                                  Line("dns-ip", "pass", "DNS IP matches instance public IP") >>
              /\ queried' = queried \cup {<<"dns", domain>>}
         [] r = "mismatch" ->
              /\ out' = out \o << Line("dns", "pass", "DNS resolves " \o domain),
                                  Line("dns-ip", "warn", "DNS IP does not match instance IP") >>
              /\ queried' = queried \cup {<<"dns", domain>>}
  /\ Goto(6)
  /\ UNCHANGED <<args, domain, HTTP_CODE, HTTPS_CODE>>
  /\ UNCHANGED <<hvars, bvars, svars>>

\* lines 103-113
CSec6 ==
  /\ cstatus = "running" /\ cpc = 6
  /\ \E r \in CurlOutcomes :
       /\ HTTP_CODE' = CodeOf(r)
       /\ Say(HttpLine(CodeOf(r), domain))
  /\ queried' = queried \cup {<<"http", domain>>}
  /\ Goto(7)
  /\ UNCHANGED <<args, domain, HTTPS_CODE>>
  /\ UNCHANGED <<hvars, bvars, svars>>

\* lines 115-142: the assignment of SSL_INFO is a command of the then-branch,
\* so a failing pipeline ends the script (line 5)
CSec7 ==
  /\ cstatus = "running" /\ cpc = 7
  /\ \E o \in {"no_openssl", "cert_read", "cert_fails"}, r \in CurlOutcomes :
       IF o = "cert_fails"
         THEN /\ Exit
              /\ queried' = queried \cup {<<"cert", domain>>}
              /\ UNCHANGED <<out, HTTPS_CODE>>
         ELSE /\ Goto(8)
              /\ HTTPS_CODE' = CodeOf(r)
              /\ IF o = "no_openssl"
                   THEN /\ out' = out \o << Line("cert", "warn", "openssl not found"),
                                            HttpsLine(CodeOf(r), domain) >>
                        /\ queried' = queried \cup {<<"https", domain>>}
                   ELSE /\ out' = out \o << Line("cert", "pass", "SSL certificate is valid"),
                                            HttpsLine(CodeOf(r), domain) >>
                        /\ queried' = queried \cup {<<"cert", domain>>, <<"https", domain>>}
  /\ UNCHANGED <<args, domain, HTTP_CODE>>
  /\ UNCHANGED <<hvars, bvars, svars>>

\* lines 144-165
CSec8 ==
  /\ cstatus = "running" /\ cpc = 8
  /\ \E net \in BOOLEAN, reach \in BOOLEAN :
       out' = out \o
         << IF net THEN Line("network", "pass", "n8n is in the Docker network")
            ELSE Line("network", "warn", "Cannot verify n8n network configuration"),
            IF reach THEN Line("reach", "pass", "n8n is reachable from Traefik container")
            ELSE Line("reach", "warn", "n8n may not be reachable from Traefik (check logs)") >>
  /\ Goto(9)
  /\ UNCHANGED <<args, domain, queried, HTTP_CODE, HTTPS_CODE>>
  /\ UNCHANGED <<hvars, bvars, svars>>

\* lines 167-178: the last grep is a plain command under set -e
CSec9 ==
  /\ cstatus = "running" /\ cpc = 9
  /\ \E listening \in BOOLEAN, mapped \in BOOLEAN :
       /\ IF listening THEN UNCHANGED out
          ELSE Say(Line("ports", "warn", "Ports 80/443 not found in ss output"))
       /\ IF mapped THEN Goto(10) ELSE Exit
  /\ UNCHANGED <<args, domain, queried, HTTP_CODE, HTTPS_CODE>>
  /\ UNCHANGED <<hvars, bvars, svars>>

\* lines 180-190
CSec10 ==
  /\ cstatus = "running" /\ cpc = 10
  /\ \E sock \in BOOLEAN :
       Say(IF sock THEN Line("socket", "pass", "Traefik has access to Docker socket")
           ELSE Line("socket", "warn", "Cannot verify Docker socket access"))
  /\ Goto(11)
  /\ UNCHANGED <<args, domain, queried, HTTP_CODE, HTTPS_CODE>>
  /\ UNCHANGED <<hvars, bvars, svars>>

\* lines 192-211
CSec11 ==
  /\ cstatus = "running" /\ cpc = 11
  /\ cstatus' = "done"
  /\ UNCHANGED <<args, domain, cpc, out, queried, HTTP_CODE, HTTPS_CODE>>
  /\ UNCHANGED <<hvars, bvars, svars>>

NextCheck ==
  \/ CStart
  \/ CSec1
  \/ CSec2
  \/ CSec3
  \/ CSec4
  \/ CSec5
  \/ CSec6
  \/ CSec7
  \/ CSec8
  \/ CSec9
  \/ CSec10
  \/ CSec11

(***************************************************************************)
(* Stack definition (lib/stacks/n8n-stack.ts, constructor)                 *)
(***************************************************************************)

Undefined == "<undefined>"

\* ec2.InstanceType: its toString(), and InstanceType.of(class, size)
InstanceTypeOf(class, size) == class \o "." \o size

InstanceTypeInputs == {Undefined, "t3.micro", "t3.small", "t2.nano"}
\* the last one is a replacement pattern of String.prototype.replace
DomainInputs == {Undefined, "", "n8n.example.org", "$&"}
CidrInputs == {Undefined, "", "10.0.0.0/8"}
\* the context value useDefaultVpc: absent, the booleans, the string 'false'
ContextInputs == {Undefined, "boolean:false", "boolean:true", "string:false"}

\* a || b of JavaScript on these inputs: undefined and '' are falsy
OrElse(v, d) == IF v = Undefined \/ v = "" THEN d ELSE v

\* lines 19-22
domainName(p) == OrElse(p.domainName, "n8n.keysely.com")
instanceTypeIgnoresInput(p) == InstanceTypeOf("t3", "micro")
instanceType(p) == OrElse(p.instanceType, InstanceTypeOf("t3", "micro"))
allowedSSHCidrAnywhere(p) == "0.0.0.0/0"
allowedSSHCidr(p) == OrElse(p.allowedSSHCidr, "0.0.0.0/0")

\* line 28: useDefaultVpc === false
IsFalseOrFalseString(v) == v \in {"boolean:false", "string:false"}
IsFalse(v) == v = "boolean:false"

R(type, id, p) == [type |-> type, id |-> id, p |-> p]

\* scripts/user-data.sh as the constructor reads it (lines 220-223): the text
\* in pieces, a piece being "${", "}", ":-", a variable name, a line break or
\* other text. Every line of the provisioner with a ${...} expression is
\* here, and of the embedded diagnostic script lines 197, 202, 274, 276, 282
\* and 295 (its other lines use the same variables). The double quotes and
\* backquotes of the text, which are part of no expression, are left out.
UserDataSh ==
  << "# Note: ", "${", "DOMAIN_NAME", "}",
       " will be replaced by CDK during stack deployment", "\n",
     "      POSTGRES_USER: ", "${", "POSTGRES_USER", ":-", "n8n", "}", "\n",
     "      POSTGRES_PASSWORD: ", "${", "POSTGRES_PASSWORD", ":-", "n8n", "}", "\n",
     "      POSTGRES_DB: ", "${", "POSTGRES_DB", ":-", "n8n", "}", "\n",
     "      test: ['CMD-SHELL', 'pg_isready -U ", "${", "POSTGRES_USER", ":-", "n8n", "}",
       "']", "\n",
     "      - DB_POSTGRESDB_DATABASE=", "${", "POSTGRES_DB", ":-", "n8n", "}", "\n",
     "      - DB_POSTGRESDB_USER=", "${", "POSTGRES_USER", ":-", "n8n", "}", "\n",
     "      - DB_POSTGRESDB_PASSWORD=", "${", "POSTGRES_PASSWORD", ":-", "n8n", "}", "\n",
     "      - N8N_HOST=", "${", "DOMAIN_NAME", "}", "\n",
     "      - WEBHOOK_URL=https://", "${", "DOMAIN_NAME", "}", "/", "\n",
     "      - N8N_BASIC_AUTH_USER=", "${", "N8N_BASIC_AUTH_USER", ":-", "admin", "}", "\n",
     "      - N8N_BASIC_AUTH_PASSWORD=", "${", "N8N_BASIC_AUTH_PASSWORD", ":-", "changeme", "}",
       "\n",
     "      - traefik.http.routers.n8n.rule=Host(", "${", "DOMAIN_NAME", "}", ")", "\n",
     "      - DOMAIN_NAME=", "${", "DOMAIN_NAME", "}", "\n",
     "      - --certificatesresolvers.letsencrypt.acme.email=",
       "${", "ACME_EMAIL", ":-", "admin@", "${", "DOMAIN_NAME", "}", "}", "\n",
     "DOMAIN_NAME=", "${", "DOMAIN_NAME", "}", "\n",
     "ACME_EMAIL=admin@", "${", "DOMAIN_NAME", "}", "\n",
     "DOMAIN=", "${", "1", ":-", "n8n.keysely.com", "}", "\n",
     "echo Domain: ", "${", "DOMAIN", "}", "\n",
     "    DNS_IP=$(dig +short ", "${", "DOMAIN", "}", " | tail -n1)", "\n",
     "        check_passed DNS resolves ", "${", "DOMAIN", "}", " to ", "${", "DNS_IP", "}",
       "\n",
     "            check_warning DNS IP (", "${", "DNS_IP", "}",
       ") does not match instance IP (", "${", "INSTANCE_IP", "}", ")", "\n",
     "HTTP_CODE=$(curl -s -o /dev/null -w %{http_code} --max-time 10 http://",
       "${", "DOMAIN", "}", " 2>/dev/null || echo 000)", "\n" >>

\* line 227: what the regular expression /\$\{DOMAIN_NAME\}/ matches
DOMAIN_NAME_PATTERN == << "${", "DOMAIN_NAME", "}" >>

\* String.prototype.replace with a string for replacement: $& in it stands
\* for the matched text, anything else here for itself
GetSubstitutionDefaultDomain(matched, replacement) == << "n8n.keysely.com" >>
GetSubstitution(matched, replacement) ==
  IF replacement = "$&" THEN matched ELSE << replacement >>

\* where pattern occurs in text
MatchesOf(text, pattern) ==
  {i \in 1..(Len(text) - Len(pattern) + 1) : SubSeq(text, i, i + Len(pattern) - 1) = pattern}

\* text.replace(/pattern/g, replacement): the leftmost match is replaced and
\* the search goes on behind it; what has been put in is not searched again
RECURSIVE replace(_, _, _)
replace(text, pattern, replacement) ==
  LET matches == MatchesOf(text, pattern)
      i == CHOOSE m \in matches : \A n \in matches : m <= n
  IN IF matches = {} THEN text
     ELSE SubSeq(text, 1, i - 1) \o GetSubstitution(pattern, replacement)
            \o replace(SubSeq(text, i + Len(pattern), Len(text)), pattern, replacement)

\* lines 220-229
userDataScript(p) == replace(UserDataSh, DOMAIN_NAME_PATTERN, domainName(p))

\* lines 248-251: the association of the reservation eip with the instance
CfnEIPAssociationUnbound(eip, instanceId) ==
  R("AWS::EC2::EIPAssociation", "N8nElasticIPAssociation",
    [EIP |-> eip, InstanceId |-> Undefined])
CfnEIPAssociation(eip, instanceId) ==
  R("AWS::EC2::EIPAssociation", "N8nElasticIPAssociation",
    [EIP |-> eip, InstanceId |-> instanceId])

Ingress(cidr, port) == [IpProtocol |-> "tcp", FromPort |-> port, ToPort |-> port, CidrIp |-> cidr]

\* the resources the constructor declares, in the order of its statements
Declared(p, c) ==
  (IF IsFalse(c) THEN << R("AWS::EC2::VPC", "VPC", [maxAzs |-> 2, natGateways |-> 0]) >>
   ELSE <<>>) \o
  << R("AWS::EC2::SecurityGroup", "N8nEC2SecurityGroup",
       [SecurityGroupIngress |-> << Ingress("0.0.0.0/0", 80), Ingress("0.0.0.0/0", 443),
                                    Ingress(allowedSSHCidr(p), 22) >>,
        allowAllOutbound |-> TRUE]),
     R("AWS::EC2::KeyPair", "N8nKeyPair", [KeyType |-> "rsa", KeyFormat |-> "pem"]),
     R("AWS::Lambda::Function", "KeyRetrieverFunction",
       [Runtime |-> "python3.12", Handler |-> "index.handler"]),
     R("AWS::IAM::Policy", "KeyRetrieverFunctionDefaultPolicy",
       [Statement |-> << [Effect |-> "Allow", Action |-> <<"ssm:GetParameter">>],
                         [Effect |-> "Allow",
                          Action |-> <<"secretsmanager:CreateSecret",
                                       "secretsmanager:DescribeSecret",
                                       "secretsmanager:PutSecretValue",
                                       "secretsmanager:GetSecretValue">>] >>]),
     R("AWS::CloudFormation::CustomResource", "KeyRetriever",
       [KeyPairId |-> "N8nKeyPair", DependsOn |-> "N8nKeyPair"]),
     R("AWS::EC2::EIP", "N8nElasticIP", [Domain |-> "vpc"]),
     R("AWS::IAM::Role", "N8nEC2Role",
       [AssumedBy |-> "ec2.amazonaws.com",
        ManagedPolicies |-> <<"AmazonSSMManagedInstanceCore">>]),
     R("AWS::IAM::Policy", "N8nEC2RoleDefaultPolicy",
       [Statement |-> << [Effect |-> "Allow",
                          Action |-> <<"ssm:GetParameter", "ssm:GetParameters">>] >>]),
     R("AWS::EC2::Instance", "N8nInstance",
       [InstanceType |-> instanceType(p), SecurityGroup |-> "N8nEC2SecurityGroup",
        Role |-> "N8nEC2Role", KeyName |-> "N8nKeyPair", UserDataDomain |-> domainName(p),
        UserData |-> userDataScript(p),
        Vpc |-> IF IsFalse(c) THEN "VPC" ELSE "DefaultVPC"]),
     CfnEIPAssociation("N8nElasticIP", "N8nInstance") >>

\* process.env.CDK_DEFAULT_REGION: unset, empty, or a region
RegionInputs == {Undefined, "", "us-west-2", "eu-west-1"}

\* a value inside a template literal: undefined reads "undefined"
TemplateValue(v) == IF v = Undefined THEN "undefined" ELSE v

\* bin/app.ts lines 11-15: the identifier and the region of the stack the
\* entry point builds
AppStack(region) ==
  [CDK_DEFAULT_REGION |-> region,
   id |-> "keysely-n8n-stack-" \o TemplateValue(region),
   region |-> OrElse(region, "us-west-2")]

\* test/n8n-stack.test.ts lines 16-22: the stack a test builds
TestStack == [CDK_DEFAULT_REGION |-> Undefined, id |-> "TestStack", region |-> "us-west-2"]

NoProps == [domainName |-> Undefined, instanceType |-> Undefined, allowedSSHCidr |-> Undefined]

StackIdle ==
  /\ props = NoProps
  /\ context = Undefined
  /\ spc = "idle"
  /\ resources = <<>>
  /\ stack = TestStack

\* the constructor is entered: from the entry point, which passes no input
\* of the stack's own, or from another caller such as the tests
InitStack ==
  /\ \/ /\ props = NoProps
        /\ stack \in {AppStack(r) : r \in RegionInputs}
     \/ /\ props \in [domainName : DomainInputs, instanceType : InstanceTypeInputs,
                      allowedSSHCidr : CidrInputs]
        /\ stack = TestStack
  /\ context \in ContextInputs
  /\ spc = "constructing"
  /\ resources = <<>>

\* the next construct of the constructor is declared
SNew ==
  /\ spc = "constructing"
  /\ Len(resources) < Len(Declared(props, context))
  /\ resources' = Append(resources, Declared(props, context)[Len(resources) + 1])
  /\ UNCHANGED <<props, context, spc, stack>>
  /\ UNCHANGED <<hvars, bvars, cvars>>

\* the constructor returns (line 302) and the template is synthesized
SSynth ==
  /\ spc = "constructing"
  /\ Len(resources) = Len(Declared(props, context))
  /\ spc' = "synthesized"
  /\ UNCHANGED <<props, context, resources, stack>>
  /\ UNCHANGED <<hvars, bvars, cvars>>

NextStack ==
  \/ SNew
  \/ SSynth

(***************************************************************************)
(* Specifications: one per program                                         *)
(***************************************************************************)

InitH == InitHandler /\ BootIdle /\ CheckIdle /\ StackIdle
SpecHandler == InitH /\ [][NextHandler]_vars

InitB == HandlerIdle /\ InitBoot /\ CheckIdle /\ StackIdle
SpecBoot == InitB /\ [][NextBoot]_vars

InitC == HandlerIdle /\ BootIdle /\ InitCheck /\ StackIdle
SpecCheck == InitC /\ [][NextCheck]_vars

InitS == HandlerIdle /\ BootIdle /\ CheckIdle /\ InitStack
SpecStack == InitS /\ [][NextStack]_vars

(***************************************************************************)
(* Properties                                                              *)
(***************************************************************************)

\* C1: in an invocation for Create or Update the polling loop is bounded:
\* get_parameter is called at most max_retries (10) times and the handler
\* sleeps at most max_retries - 1 (9) times, whatever the parameter store
\* answers; while the loop is still running fewer than 10 attempts have
\* ended in not-found.
C1_PollingBounded ==
  /\ calls["get_parameter"] <= max_retries
  /\ calls["sleep"] <= max_retries - 1
  /\ hpc \in {"poll", "sleep"} => retry_count < max_retries

\* an invocation that used all 10 attempts and all 9 waits has finished
C1_Witness ==
  /\ hpc = "done"
  /\ event.RequestType = "Create"
  /\ calls["get_parameter"] = 10
  /\ calls["sleep"] = 9

\* C2: when all 10 attempts end in ParameterNotFound the handler reports
\* FAILED (once), makes no describe_secret, put_secret_value or create_secret
\* call, and the secret store is as it was before the invocation.
C2_ExhaustedRetriesFail ==
  (hpc = "done" /\ retry_count = max_retries) =>
    /\ responses = << [Status |-> "FAILED", Data |-> EmptyData] >>
    /\ calls["describe_secret"] = 0
    /\ calls["put_secret_value"] = 0
    /\ calls["create_secret"] = 0
    /\ sm = sm0

C2_Witness ==
  /\ hpc = "done"
  /\ retry_count = max_retries
  /\ calls["get_parameter"] = 10
  /\ \E n \in SecretNames : sm0[n] /= Absent

\* C3: when the parameter /ec2/keypair/{KeyPairId} was read with a non-empty
\* value and no secret-store call raised an error, the finished handler has
\* left the secret SecretName holding exactly the parameter's value and has
\* reported SUCCESS with PrivateKeySecretArn the ARN of that secret.
C3_KeyCopiedToSecret ==
  (hpc = "done" /\ event.RequestType /= "Delete" /\ private_key /= None
     /\ private_key /= "" /\ calls["error"] = 0) =>
    /\ sm[event.SecretName] = ssm["/ec2/keypair/" \o event.KeyPairId]
    /\ sm[event.SecretName] \in {"pem-1", "pem-2"}
    /\ responses = << [Status |-> "SUCCESS",
                       Data |-> "arn:aws:secretsmanager:secret:" \o event.SecretName] >>

\* the key is found on the tenth attempt and replaces an existing secret's value
C3_Witness ==
  /\ hpc = "done"
  /\ event.RequestType = "Create"
  /\ calls["get_parameter"] = 10
  /\ calls["error"] = 0
  /\ private_key = "pem-1"
  /\ sm0[event.SecretName] = "pem-old"
  /\ sm[event.SecretName] = "pem-1"

Ran(line) == \E i \in 1..Len(host.ran) : host.ran[i] = line

PasswordNames == {"POSTGRES_PASSWORD", "DB_POSTGRESDB_PASSWORD", "N8N_BASIC_AUTH_PASSWORD"}

\* C4: the passwords the services read from /opt/n8n/docker/.env are random
\* values generated on the host at provisioning time (outputs of openssl rand).
C4_PasswordsAreRandom ==
  host.up => \A e \in host.env : e[2] \in PasswordNames => e[3] \in RandOutputs

\* C5: the only ports published on the host are 80 and 443, both by the
\* reverse proxy; the application and the database publish none.
C5_OnlyProxyPortsPublished ==
  host.up => host.published = { <<"traefik", 80>>, <<"traefik", 443>> }

\* C6: the commands run strictly in the order of the file; when the
\* composition is launched (line 146) the container runtime is installed and
\* started, docker-compose is installed and executable, docker-compose.yml and
\* .env are fully written and .env has mode 600; and at first boot nothing of
\* what follows the launch is there before it.
C6_LaunchAfterSetup ==
  /\ \A i, j \in 1..Len(host.ran) : i < j => host.ran[i] < host.ran[j]
  /\ Ran(146) =>
       /\ "docker" \in host.packages
       /\ "docker" \in host.started
       /\ host.fs[COMPOSE_BIN].kind = "file" /\ host.fs[COMPOSE_BIN].mode = 755
       /\ host.fs[COMPOSE_YML].kind = "file"
       /\ Len(host.fs[COMPOSE_YML].content) = 3
       /\ host.fs[ENV_FILE].kind = "file"
       /\ Len(host.fs[ENV_FILE].content) = 7
       /\ host.fs[ENV_FILE].mode = 600
  /\ (brun = 1 /\ ~host.up) =>
       /\ \A p \in {LOGROTATE_CONF, SCRIPTS_DIR, CHECK_SCRIPT, CHECK_LINK} :
            host.fs[p].kind = "absent"
       /\ "bind-utils curl openssl" \notin host.packages

\* the composition has just been launched at first boot
C6_Witness ==
  /\ brun = 1
  /\ bstatus = "running"
  /\ host.up
  /\ host.ran[Len(host.ran)] = 146

\* the objects the claim names; its directories under /opt/n8n are all the
\* directories there
C7_Files == {COMPOSE_YML, ENV_FILE, LOGROTATE_CONF, CHECK_SCRIPT, CHECK_LINK}
C7_AllDirs == {p \in UnderOpt : host.fs[p].kind = "dir"}
C7_ScriptDirs == {p \in UnderOpt \cap ScriptPaths : host.fs[p].kind = "dir"}

\* C7 as stated: after a second complete run every directory under /opt/n8n,
\* docker-compose.yml, .env, the logrotate configuration, the diagnostic
\* script and its symlink are as they were after the first run.
C7_IdempotentAllDirectories ==
  (bstatus = "done" /\ brun >= 2) =>
    \A p \in C7_Files \cup C7_AllDirs : host.fs[p] = snap[p]

\* C7 amended: after a second complete run the directories the script itself
\* creates under /opt/n8n, docker-compose.yml, .env, the logrotate
\* configuration, the diagnostic script and its symlink have the content,
\* owner and mode they had after the run before.
C7_IdempotentScriptPaths ==
  (bstatus = "done" /\ brun >= 2) =>
    /\ \A p \in C7_Files \cup C7_ScriptDirs : host.fs[p] = snap[p]
    /\ C7_ScriptDirs = (UnderOpt \cap ScriptPaths) \ {COMPOSE_YML, ENV_FILE, CHECK_SCRIPT}

C7_Witness ==
  /\ bstatus = "done"
  /\ brun = 2
  /\ host.fs[ENV_FILE].mode = 600
  /\ host.fs[CHECK_LINK].kind = "link"

\* C8 as stated: every domain-dependent check uses the first argument when
\* one is given and n8n.keysely.com when none is given.
C8_FirstArgumentWhenGiven ==
  \A q \in queried : q[2] = (IF Len(args) >= 1 THEN args[1] ELSE "n8n.keysely.com")

\* C8 amended: every domain-dependent check (DNS, HTTP, certificate, HTTPS)
\* uses the first argument when one is given and is not empty, and
\* n8n.keysely.com when none is given or the first one is the empty string.
C8_FirstArgumentOrDefault ==
  /\ \A q \in queried :
       q[2] = (IF Len(args) >= 1 /\ args[1] /= "" THEN args[1] ELSE "n8n.keysely.com")
  /\ cpc > 6 =>
       <<"http", IF Len(args) >= 1 /\ args[1] /= "" THEN args[1] ELSE "n8n.keysely.com">>
         \in queried

\* all four checks have run, with a domain given and with none
C8_Witness ==
  /\ cstatus = "done"
  /\ args = << "n8n.example.org" >>
  /\ queried = { <<c, "n8n.example.org">> : c \in {"dns", "http", "cert", "https"} }

LinesOf(check) == SelectSeq(out, LAMBDA l : l.check = check)

Instances == SelectSeq(resources, LAMBDA r : r.type = "AWS::EC2::Instance")

\* C10: the synthesized stack declares one compute instance; its instance
\* type is t3.micro when the instanceType input is omitted and the given
\* instanceType when one is supplied.
C10_InstanceType ==
  spc = "synthesized" =>
    /\ Len(Instances) = 1
    /\ Instances[1].p.InstanceType =
         (IF props.instanceType = Undefined THEN "t3.micro" ELSE props.instanceType)

C10_Witness ==
  /\ spc = "synthesized"
  /\ props.instanceType = "t3.small"
  /\ Instances[1].p.InstanceType = "t3.small"

OfType(t) == SelectSeq(resources, LAMBDA r : r.type = t)

\* C11: for every combination of inputs the stack declares exactly one
\* Elastic IP and exactly one EIPAssociation, and the association binds that
\* reservation to the stack's single compute instance.
C11_OneAddressBoundToInstance ==
  /\ Len(OfType("AWS::EC2::EIP")) <= 1
  /\ Len(OfType("AWS::EC2::EIPAssociation")) <= 1
  /\ spc = "synthesized" =>
       /\ Len(OfType("AWS::EC2::EIP")) = 1
       /\ Len(OfType("AWS::EC2::EIPAssociation")) = 1
       /\ Len(Instances) = 1
       /\ OfType("AWS::EC2::EIPAssociation")[1].p.EIP = OfType("AWS::EC2::EIP")[1].id
       /\ OfType("AWS::EC2::EIPAssociation")[1].p.InstanceId = Instances[1].id

\* a stack built with every input given and a VPC of its own
C11_Witness ==
  /\ spc = "synthesized"
  /\ props = [domainName |-> "n8n.example.org", instanceType |-> "t2.nano",
              allowedSSHCidr |-> "10.0.0.0/8"]
  /\ context = "boolean:false"
  /\ OfType("AWS::EC2::EIPAssociation")[1].p.InstanceId = "N8nInstance"

SecurityGroups == OfType("AWS::EC2::SecurityGroup")

\* C12 as stated: the security group has exactly three ingress rules, in
\* this order: TCP 80 from 0.0.0.0/0, TCP 443 from 0.0.0.0/0, TCP 22 from
\* the allowedSSHCidr input, 0.0.0.0/0 when the input is omitted.
C12_IngressFromInput ==
  spc = "synthesized" =>
    /\ Len(SecurityGroups) = 1
    /\ SecurityGroups[1].p.SecurityGroupIngress =
         << [IpProtocol |-> "tcp", FromPort |-> 80, ToPort |-> 80, CidrIp |-> "0.0.0.0/0"],
            [IpProtocol |-> "tcp", FromPort |-> 443, ToPort |-> 443, CidrIp |-> "0.0.0.0/0"],
            [IpProtocol |-> "tcp", FromPort |-> 22, ToPort |-> 22,
             CidrIp |-> IF props.allowedSSHCidr = Undefined THEN "0.0.0.0/0"
                        ELSE props.allowedSSHCidr] >>

\* C12 amended: the security group has exactly three ingress rules, in this
\* order: TCP 80 from 0.0.0.0/0, TCP 443 from 0.0.0.0/0, TCP 22 from the
\* allowedSSHCidr input, 0.0.0.0/0 when the input is omitted or is the empty
\* string; no other inbound port is opened.
C12_IngressFromInputOrDefault ==
  spc = "synthesized" =>
    /\ Len(SecurityGroups) = 1
    /\ SecurityGroups[1].p.SecurityGroupIngress =
         << [IpProtocol |-> "tcp", FromPort |-> 80, ToPort |-> 80, CidrIp |-> "0.0.0.0/0"],
            [IpProtocol |-> "tcp", FromPort |-> 443, ToPort |-> 443, CidrIp |-> "0.0.0.0/0"],
            [IpProtocol |-> "tcp", FromPort |-> 22, ToPort |-> 22,
             CidrIp |-> IF props.allowedSSHCidr \in {Undefined, ""} THEN "0.0.0.0/0"
                        ELSE props.allowedSSHCidr] >>

\* SSH restricted to the given range
C12_Witness ==
  /\ spc = "synthesized"
  /\ props.allowedSSHCidr = "10.0.0.0/8"
  /\ SecurityGroups[1].p.SecurityGroupIngress[3].CidrIp = "10.0.0.0/8"
  /\ SecurityGroups[1].p.SecurityGroupIngress[3].FromPort = 22

\* C13: the stack declares a VPC of its own, exactly one, when the context
\* value useDefaultVpc is the boolean false, and declares no VPC and places
\* the instance in the looked-up default VPC when useDefaultVpc is absent or
\* has any other value.
C13_OwnVpcOnlyWhenFalse ==
  spc = "synthesized" =>
    IF context = "boolean:false"
      THEN /\ Len(OfType("AWS::EC2::VPC")) = 1
           /\ Instances[1].p.Vpc = OfType("AWS::EC2::VPC")[1].id
      ELSE /\ Len(OfType("AWS::EC2::VPC")) = 0
           /\ Instances[1].p.Vpc = "DefaultVPC"

\* the context holds the string 'false': the default VPC is looked up
C13_Witness ==
  /\ spc = "synthesized"
  /\ context = "string:false"
  /\ Len(OfType("AWS::EC2::VPC")) = 0
  /\ Instances[1].p.Vpc = "DefaultVPC"

SsmSessionActions ==
  << "ssm:UpdateInstanceInformation", "ssmmessages:CreateControlChannel",
     "ssmmessages:CreateDataChannel", "ssmmessages:OpenControlChannel",
     "ssmmessages:OpenDataChannel" >>

\* C14: the synthesized stack declares an AWS::IAM::Policy whose policy
\* document has an Allow statement for the actions
\* ssm:UpdateInstanceInformation, ssmmessages:CreateControlChannel,
\* ssmmessages:CreateDataChannel, ssmmessages:OpenControlChannel and
\* ssmmessages:OpenDataChannel.
C14_PolicyAllowsSessionActions ==
  spc = "synthesized" =>
    \E i \in 1..Len(OfType("AWS::IAM::Policy")) :
      \E j \in 1..Len(OfType("AWS::IAM::Policy")[i].p.Statement) :
        /\ OfType("AWS::IAM::Policy")[i].p.Statement[j].Effect = "Allow"
        /\ OfType("AWS::IAM::Policy")[i].p.Statement[j].Action = SsmSessionActions

\* C15: after the boot provisioner has completed, the health check script is
\* installed and can be run as the command check-traefik.
C15_RunnableAsCheckTraefik ==
  bstatus = "done" =>
    /\ host.fs[CHECK_SCRIPT].kind = "file"
    /\ CanRun(host, "check-traefik")

\* C16: every invocation of the handler sends exactly one response, SUCCESS
\* or FAILED, never both and never none: nothing is sent before the handler
\* ends, one response has been sent when it has ended, and until then it
\* always has a next step (Delete, key found, retries exhausted, empty key
\* value, error from any store call).
C16_ExactlyOneResponse ==
  /\ hpc = "done" =>
       /\ Len(responses) = 1
       /\ responses[1].Status \in {"SUCCESS", "FAILED"}
  /\ hpc /= "done" => responses = <<>>
  /\ hpc \notin {"done", "idle"} =>
       ENABLED (HStart \/ HGetParameter \/ HSleep \/ HCheck \/ HDescribe \/ HPut
                  \/ HCreate \/ HSendSuccess \/ HExcept)

\* the secret vanished before put_secret_value, and create_secret then failed
C16_Witness ==
  /\ hpc = "done"
  /\ calls["put_secret_value"] = 1
  /\ raised = [api |-> "create_secret", error |-> "Other"]
  /\ responses = << [Status |-> "FAILED", Data |-> EmptyData] >>

\* C17: on Delete the handler reports SUCCESS at once and calls neither the
\* parameter store nor the secret store; the secret written by an earlier
\* Create is neither deleted nor modified.
C17_DeleteTouchesNothing ==
  (event.RequestType = "Delete" /\ hpc /= "idle") =>
    /\ hpc \in {"start", "done"}
    /\ \A a \in ApiNames : calls[a] = 0
    /\ sm = sm0
    /\ past /= <<>> => sm[event.SecretName] = past[Len(past)].SecretString
    /\ hpc = "done" => responses = << [Status |-> "SUCCESS", Data |-> EmptyData] >>

\* a Delete after a Create that stored the key
C17_Witness ==
  /\ hpc = "done"
  /\ event.RequestType = "Delete"
  /\ Len(past) = 1
  /\ past[1].RequestType = "Create"
  /\ past[1].Status = "SUCCESS"
  /\ sm[event.SecretName] = "pem-1"

\* no store call of the invocation raised anything but the two not-found
\* answers the handler expects
C18_NoError ==
  /\ calls["error"] = 0
  /\ raised /= [api |-> "put_secret_value", error |-> "ResourceNotFoundException"]

C19_Expected ==
  {NoError, [api |-> "get_parameter", error |-> "ParameterNotFound"],
   [api |-> "describe_secret", error |-> "ResourceNotFoundException"]}

\* each call of the secret store is made at most once, and get_parameter is
\* called again only after a ParameterNotFound
C19_NoSecondAttempt ==
  /\ \A a \in {"describe_secret", "put_secret_value", "create_secret"} : calls[a] <= 1
  /\ calls["get_parameter"] <= retry_count + 1
  /\ calls["error"] <= 1

\* C19 as stated: the handler retries only on ParameterNotFound; any other
\* get_parameter error and any error from describe_secret (other than
\* not-found), put_secret_value or create_secret ends the invocation with
\* FAILED, without a further attempt of the failed call.
C19_EveryOtherErrorFails ==
  /\ C19_NoSecondAttempt
  /\ raised \notin C19_Expected =>
       /\ hpc \in {"except", "done"}
       /\ hpc = "done" => responses = << [Status |-> "FAILED", Data |-> EmptyData] >>

\* C19 amended: the handler retries only on ParameterNotFound; any other
\* get_parameter error, any error from describe_secret other than not-found,
\* any error from put_secret_value other than ResourceNotFoundException and
\* any error from create_secret ends the invocation with FAILED, without a
\* further attempt of the failed call; after a ResourceNotFoundException from
\* put_secret_value the handler calls create_secret.
C19_OtherErrorsFail ==
  /\ C19_NoSecondAttempt
  /\ raised \notin
       C19_Expected \cup {[api |-> "put_secret_value", error |-> "ResourceNotFoundException"]} =>
       /\ hpc \in {"except", "done"}
       /\ hpc = "done" => responses = << [Status |-> "FAILED", Data |-> EmptyData] >>
  /\ raised = [api |-> "put_secret_value", error |-> "ResourceNotFoundException"] =>
       /\ hpc \in {"create", "send", "done"}
       /\ hpc /= "create" => calls["create_secret"] = 1

\* describe_secret failed with an error other than not-found
C19_Witness ==
  /\ hpc = "done"
  /\ raised = [api |-> "describe_secret", error |-> "Other"]
  /\ calls["describe_secret"] = 1
  /\ calls["put_secret_value"] = 0
  /\ calls["create_secret"] = 0
  /\ responses = << [Status |-> "FAILED", Data |-> EmptyData] >>

\* how many times the pieces of pattern occur in text, one after the other
Count(text, pattern) ==
  Cardinality({i \in 1..Len(text) :
                 /\ i + Len(pattern) - 1 <= Len(text)
                 /\ \A k \in 1..Len(pattern) : text[i + k - 1] = pattern[k]})

\* the position of the } that closes the expression open at position j
RECURSIVE Closing(_, _, _)
Closing(text, j, depth) ==
  IF j > Len(text) THEN Len(text)
  ELSE IF text[j] = "}"
    THEN IF depth = 1 THEN j ELSE Closing(text, j + 1, depth - 1)
    ELSE Closing(text, j + 1, IF text[j] = "${" THEN depth + 1 ELSE depth)

\* the ${...} expressions of text other than ${DOMAIN_NAME}, each from its
\* ${ to its }, in the order of the text
OtherExprs(text) ==
  LET opens == SelectSeq([i \in 1..(Len(text) - 1) |-> i],
                         LAMBDA i : text[i] = "${" /\ text[i + 1] /= "DOMAIN_NAME")
  IN [k \in 1..Len(opens) |-> SubSeq(text, opens[k], Closing(text, opens[k] + 1, 1))]

\* text without the pieces in S
Without(text, S) == SelectSeq(text, LAMBDA t : t \notin S)

\* C20 as stated: in the boot script the stack builds, every occurrence of
\* ${DOMAIN_NAME} of user-data.sh is replaced by the configured domain name,
\* n8n.keysely.com when domainName is omitted, so that no ${DOMAIN_NAME} is
\* left; every other ${...} expression is left unchanged.
C20_OnlyPlaceholderReplaced ==
  spc = "synthesized" =>
    LET result == Instances[1].p.UserData
        d == IF props.domainName = Undefined THEN "n8n.keysely.com" ELSE props.domainName
    IN /\ Count(result, << "${", "DOMAIN_NAME", "}" >>) = 0
       /\ Count(result, << d >>) =
            Count(UserDataSh, << "${", "DOMAIN_NAME", "}" >>) + Count(UserDataSh, << d >>)
       /\ OtherExprs(result) = OtherExprs(UserDataSh)

\* C20 amended: for a domain name without $, every occurrence of
\* ${DOMAIN_NAME} of user-data.sh (eight, one of them in a comment) is
\* replaced by the domain name, by n8n.keysely.com when domainName is omitted
\* or empty, so that no ${DOMAIN_NAME} is left; the text around the
\* occurrences is unchanged, and so is every other ${...} expression except
\* ${ACME_EMAIL:-admin@${DOMAIN_NAME}}, whose default becomes admin@ and the
\* domain name. With the domain name $& the script is left as it is.
C20_PlaceholderReplacedEverywhere ==
  spc = "synthesized" =>
    LET result == Instances[1].p.UserData
        d == IF props.domainName \in {Undefined, ""} THEN "n8n.keysely.com"
             ELSE props.domainName
        acme == CHOOSE k \in 1..Len(OtherExprs(UserDataSh)) :
                  OtherExprs(UserDataSh)[k][2] = "ACME_EMAIL"
    IN IF props.domainName = "$&"
         THEN result = UserDataSh
         ELSE /\ Count(result, << "${", "DOMAIN_NAME", "}" >>) = 0
              /\ Count(UserDataSh, << "${", "DOMAIN_NAME", "}" >>) = 8
              /\ Count(result, << d >>) = 8 + Count(UserDataSh, << d >>)
              /\ Len(result) = Len(UserDataSh) - 16
              /\ Without(result, {"${", "DOMAIN_NAME", "}", d})
                   = Without(UserDataSh, {"${", "DOMAIN_NAME", "}", d})
              /\ OtherExprs(result) =
                   [OtherExprs(UserDataSh) EXCEPT
                      ![acme] = << "${", "ACME_EMAIL", ":-", "admin@", d, "}" >>]

\* a stack for n8n.example.org: the name stands where the placeholder stood
C20_Witness ==
  /\ spc = "synthesized"
  /\ props.domainName = "n8n.example.org"
  /\ Count(Instances[1].p.UserData, << "DOMAIN_NAME=", "n8n.example.org", "\n" >>) = 1
  /\ Count(Instances[1].p.UserData, << "n8n.example.org" >>) = 8

\* the paths the commands that have run in this run have written
C21_Written ==
  {Script[i].path : i \in {j \in 1..Len(Script) :
     Ran(Script[j].line) /\ Script[j].op \in {"mkdir_p", "cat_compose", "cat_env", "tee",
                                               "curl_download", "ln_sf"}}}

\* what a stopped script leaves: nothing behind the failed command has run,
\* what was written is there, and at first boot a failed launch leaves the log
\* rotation configuration, the diagnostic script and its link uninstalled
C21_Stopped(line) ==
  /\ bstatus = "failed"
  /\ \A i \in 1..Len(host.ran) : host.ran[i] < line
  /\ \A p \in C21_Written : host.fs[p].kind /= "absent"
  /\ (line = 146 /\ brun = 1) =>
       /\ ~host.up
       /\ \A p \in {LOGROTATE_CONF, CHECK_SCRIPT, CHECK_LINK} : host.fs[p].kind = "absent"

\* C21 as stated: if any command of the boot provisioner fails, the script
\* stops there: no later step runs and nothing already done is undone; if the
\* launch of the composition fails, the log rotation configuration, the
\* diagnostic script and its symlink are not installed.
C21_AnyFailureStops ==
  \A k \in 1..Len(host.failed) : C21_Stopped(host.failed[k])

\* C21 amended: if any command of the boot provisioner other than the docker
\* exec of line 164 fails, the script stops there: no later step runs and
\* nothing already done is undone; if the launch of the composition fails at
\* first boot, the log rotation configuration, the diagnostic script and its
\* symlink are not installed. A failure of the docker exec of line 164 is
\* masked by || true and the script goes on.
C21_UnmaskedFailureStops ==
  /\ \A k \in 1..Len(host.failed) : host.failed[k] /= 164 => C21_Stopped(host.failed[k])
  /\ Len(host.failed) <= 2
  /\ bstatus = "failed" => host.failed /= <<>>

\* the launch failed at first boot
C21_Witness ==
  /\ bstatus = "failed"
  /\ brun = 1
  /\ host.failed = << 146 >>
  /\ host.ran[Len(host.ran)] = 145
  /\ host.fs[ENV_FILE].mode = 600
  /\ host.fs[LOGROTATE_CONF].kind = "absent"

\* C22: whenever /opt/n8n/docker is accessible the verification script
\* reaches the final summary, whatever the outcome of each check: it ends
\* early only with the line Cannot access /opt/n8n/docker of section 1.
C22_ReachesSummary ==
  cstatus = "exited" =>
    /\ cpc = 1
    /\ out = << Line("containers", "fail", "Cannot access /opt/n8n/docker") >>

\* C23: in section 7, when openssl is installed and the certificate of the
\* domain was asked for, a line about the certificate is printed (the warn
\* line Cannot retrieve SSL certificate when the pipeline fails) and the
\* script goes on to the HTTPS status-code check.
C23_CertificateLineThenHttps ==
  <<"cert", domain>> \in queried =>
    /\ Len(LinesOf("cert")) = 1
    /\ <<"https", domain>> \in queried
    /\ cpc > 7

\* C24: when the HTTP (the HTTPS) request cannot connect, curl writing 000
\* and ending with a non-zero status, the check prints the fail line
\* Cannot connect to http://DOMAIN (https://DOMAIN).
C24_NoConnectionIsFailLine ==
  /\ (cpc > 6 /\ HTTP_CODE = CodeOf([written |-> "000", rc |-> 7])) =>
       LinesOf("http") = << Line("http", "fail", "Cannot connect to http://" \o domain) >>
  /\ (cpc > 7 /\ HTTPS_CODE = CodeOf([written |-> "000", rc |-> 7])) =>
       LinesOf("https") = << Line("https", "fail", "Cannot connect to https://" \o domain) >>

\* C25: for every value of CDK_DEFAULT_REGION, set or unset, the region named
\* in the identifier keysely-n8n-stack-<region> the entry point builds is the
\* region the stack is configured to deploy to.
C25_IdentifierNamesRegion ==
  (spc = "synthesized" /\ stack.id /= "TestStack") =>
    stack.id = "keysely-n8n-stack-" \o stack.region

=============================================================================
